---------------------------- MODULE Spec2Model ----------------------------
(***************************************************************************)
(* Model of the wine-label detection-to-crop pipeline (server/wine.ts):    *)
(* base64ToBuffer, detectWineLabels, getImageDimensions, cropImageSharp    *)
(* and processWineImage.                                                   *)
(*                                                                         *)
(* and of the upload page that calls it (client/src/pages/Home.tsx).       *)
(*                                                                         *)
(* Three specifications share the module:                                  *)
(*   SpecCrop  cropImageSharp applied to one box and one image size        *)
(*   Spec      one run of processWineImage, one action per stretch of code *)
(*             between two awaits (JavaScript runs each to completion)     *)
(*   SpecHome  the Home page: file selections, FileReader loads, pending   *)
(*             processImage mutations and clicks, in every interleaving    *)
(***************************************************************************)
EXTENDS Integers, Sequences, FiniteSets, TLC

VARIABLES
    \* ---- cropImageSharp on its own ----
    cbox,       \* bbox argument of cropImageSharp
    cdims,      \* imageDimensions argument of cropImageSharp
    cphase,     \* "args" before the call, "extract" once the rectangle is computed
    crect,      \* the rectangle handed to sharp's extract
    \* ---- processWineImage ----
    pc,         \* position in processWineImage
    imageBase64,\* the argument of processWineImage
    response,   \* what invokeLLM resolved with
    detectedLabels, \* what detectWineLabels returned
    imageDimensions,\* what getImageDimensions returned
    idx,        \* 1-based position of the for-of loop in detectedLabels
    croppedRect,\* rectangle of the crop awaiting storage
    crops,      \* const crops: CropResult[]
    bboxes,     \* const bboxes
    nextId,     \* source of nanoid() values
    stored,     \* keys written by storagePut, in call order
    failed,     \* positions of the boxes whose crop or store step threw
    error,      \* the error processWineImage rejected with
    trace,      \* history of the external calls made by the run
    \* ---- Home page ----
    state,      \* useState<ProcessingState | null>
    homeImageDimensions, \* useState imageDimensions of the page
    uploads,    \* the files handed to handleFileSelect, with their reader
                \* and their processImage mutation
    toast       \* the last toast shown

cropVars == <<cbox, cdims, cphase, crect>>
pipeVars == <<pc, imageBase64, response, detectedLabels, imageDimensions, idx, croppedRect,
              crops, bboxes, nextId, stored, failed, error, trace>>
homeVars == <<state, homeImageDimensions, uploads, toast>>
vars == <<cbox, cdims, cphase, crect,
          pc, imageBase64, response, detectedLabels, imageDimensions, idx,
          croppedRect, crops, bboxes, nextId, stored, failed, error, trace,
          state, homeImageDimensions, uploads, toast>>

--------------------------------------------------------------------------
(* Bounds and input sets *)

\* longest array of boxes the detector returns in the model
MaxBoxes == 3

\* number of files the user hands to the page in one behaviour
MaxUploads == 3

\* coordinates on the 0..1000 grid used for boxes
Coords == {0, 100, 200, 500, 700, 750, 1000}

\* image widths and heights
Dims == {1, 2, 35, 36, 1000}

Max(a, b) == IF a >= b THEN a ELSE b
Min(a, b) == IF a <= b THEN a ELSE b

NoRect == [left |-> -1, top |-> -1, width |-> -1, height |-> -1]

--------------------------------------------------------------------------
(* IEEE-754 binary64 arithmetic of  v * (dim / 1000)                        *)
(*                                                                          *)
(* scaleX = actualWidth / 1000 is rounded to a 53-bit significand and the   *)
(* product bbox.xmin * scaleX is rounded again; Math.floor / Math.ceil see  *)
(* the rounded product.  When v*dim is not a multiple of 1000 the exact     *)
(* product is at least 1/1000 away from every integer, far more than the    *)
(* rounding error, and floor/ceil agree with exact arithmetic.  When v*dim  *)
(* is a multiple of 1000 the exact product is the integer k and the rounded *)
(* product is k or one of its neighbours; which one follows from the        *)
(* rounding residue of the scale.                                           *)

RECURSIVE Pow2(_)
Pow2(n) == IF n = 0 THEN 1 ELSE 2 * Pow2(n - 1)

RECURSIVE Pow2Mod1000(_)
Pow2Mod1000(n) == IF n = 0 THEN 1 ELSE (2 * Pow2Mod1000(n - 1)) % 1000

RECURSIVE Log2Floor(_)
Log2Floor(k) == IF k < 2 THEN 0 ELSE 1 + Log2Floor(k \div 2)

RECURSIVE ShiftsToReach1000(_, _)
ShiftsToReach1000(d, n) == IF d * Pow2(n) >= 1000 THEN n ELSE ShiftsToReach1000(d, n + 1)

\* binary exponent q of dim/1000:  2^q <= dim/1000 < 2^(q+1)
ScaleExp(dim) ==
    IF dim < 1000 THEN 0 - ShiftsToReach1000(dim, 1)
    ELSE Log2Floor(dim \div 1000)

\* 1000*m - dim*2^e, where m is the 53-bit significand of dim/1000 and
\* e = 52 - ScaleExp(dim): the signed rounding error of the scale
ScaleResidue(dim) ==
    LET e == 52 - ScaleExp(dim)
        t == (dim * Pow2Mod1000(e)) % 1000
    IN  IF t < 500 THEN 0 - t ELSE 1000 - t

\* sign of  fl(v * fl(dim/1000)) - v*dim/1000  for v >= 1 with 1000 | v*dim
ProductDrift(v, dim) ==
    LET k == (v * dim) \div 1000
        r == ScaleResidue(dim)
        j == Log2Floor(k)
        U == Pow2(j - ScaleExp(dim))
        absr == IF r < 0 THEN 0 - r ELSE r
    IN  IF r = 0 THEN 0
        ELSE IF r < 0 /\ k = Pow2(j)
             THEN (IF 4 * v * absr <= 1000 * U THEN 0 ELSE -1)
             ELSE (IF 2 * v * absr <= 1000 * U THEN 0
                   ELSE IF r > 0 THEN 1 ELSE -1)

\* Math.floor(v * scale) for v >= 0, scale = dim / 1000
FloorScaledNat(v, dim) ==
    IF v = 0 THEN 0
    ELSE IF (v * dim) % 1000 = 0
         THEN (v * dim) \div 1000 + (IF ProductDrift(v, dim) < 0 THEN -1 ELSE 0)
         ELSE (v * dim) \div 1000

\* Math.ceil(v * scale) for v >= 0, scale = dim / 1000
CeilScaledNat(v, dim) ==
    IF v = 0 THEN 0
    ELSE IF (v * dim) % 1000 = 0
         THEN (v * dim) \div 1000 + (IF ProductDrift(v, dim) > 0 THEN 1 ELSE 0)
         ELSE (v * dim) \div 1000 + 1

\* Math.floor(v * scale); the product of a negative v is the negated product
FloorScaled(v, dim) ==
    IF v >= 0 THEN FloorScaledNat(v, dim) ELSE 0 - CeilScaledNat(0 - v, dim)

\* Math.ceil(v * scale)
CeilScaled(v, dim) ==
    IF v >= 0 THEN CeilScaledNat(v, dim) ELSE 0 - FloorScaledNat(0 - v, dim)

\* Math.max(1, Math.floor(extent * 0.05)); extent * 0.05 never rounds across
\* an integer, so the floor is the floor of extent / 20
PadOf(extent) == Max(1, extent \div 20)

--------------------------------------------------------------------------
(* cropImageSharp: the rectangle passed to extract *)

pixelX(b, d) == FloorScaled(b.xmin, d.width)
pixelY(b, d) == FloorScaled(b.ymin, d.height)
pixelW(b, d) == CeilScaled(b.xmax - b.xmin, d.width)
pixelH(b, d) == CeilScaled(b.ymax - b.ymin, d.height)

cropX(b, d) == Max(0, pixelX(b, d) - PadOf(pixelW(b, d)))
cropY(b, d) == Max(0, pixelY(b, d) - PadOf(pixelH(b, d)))
\* cropW with the extent bounded against the whole width instead of the
\* space left after the clamped origin
cropWAgainstFullWidth(b, d) == Min(d.width, pixelW(b, d) + PadOf(pixelW(b, d)) * 2)

cropW(b, d) == Min(d.width - cropX(b, d), pixelW(b, d) + PadOf(pixelW(b, d)) * 2)
cropH(b, d) == Min(d.height - cropY(b, d), pixelH(b, d) + PadOf(pixelH(b, d)) * 2)

CropRect(b, d) ==
    [left |-> cropX(b, d), top |-> cropY(b, d),
     width |-> cropW(b, d), height |-> cropH(b, d)]


\* sharp's extract({left, top, width, height}) rejects a region that is not
\* a non-empty rectangle at a non-negative offset
ExtractAccepts(r) ==
    r.left >= 0 /\ r.top >= 0 /\ r.width >= 1 /\ r.height >= 1

--------------------------------------------------------------------------
(* Inputs of processWineImage and answers of its collaborators *)

\* [A-Za-z0-9_], as far as the inputs below use it
WordChars == {"p", "n", "g", "j", "_", "4"}

\* characters the dot of the regular expression does not match
LineTerminators == {"\n", "\r"}

RECURSIVE AllIn(_, _)
AllIn(s, set) == IF s = <<>> THEN TRUE ELSE Head(s) \in set /\ AllIn(Tail(s), set)

RECURSIVE NoneIn(_, _)
NoneIn(s, set) == IF s = <<>> THEN TRUE ELSE Head(s) \notin set /\ NoneIn(Tail(s), set)

\* the strings handed to processWineImage, cut where the expression
\* /^data:image\/(\w+);base64,(.*)$/ cuts them
DataUris ==
    { [scheme |-> "data:image/", subtype |-> <<"p", "n", "g">>,
       marker |-> ";base64,", payload |-> <<"i", "V", "B", "=">>],
      [scheme |-> "data:image/", subtype |-> <<"j", "p", "g">>,
       marker |-> ";base64,", payload |-> <<>>],
      [scheme |-> "data:image/", subtype |-> <<"s", "v", "g", "+", "x">>,
       marker |-> ";base64,", payload |-> <<"i", "V">>],
      [scheme |-> "data:image/", subtype |-> <<>>,
       marker |-> ";base64,", payload |-> <<"i", "V">>],
      [scheme |-> "data:text/", subtype |-> <<"p", "n", "g">>,
       marker |-> ";base64,", payload |-> <<"i", "V">>],
      [scheme |-> "", subtype |-> <<>>,
       marker |-> "", payload |-> <<"i", "V", "B", "=">>],
      [scheme |-> "data:image/", subtype |-> <<"p", "n", "g">>,
       marker |-> ";charset=utf-8,", payload |-> <<"i", "V">>],
      [scheme |-> "data:image/", subtype |-> <<"p", "n", "g">>,
       marker |-> ";base64,", payload |-> <<"i", "V", "\n">>] }

\* base64.match(/^data:image\/(\w+);base64,(.*)$/) is not null
MatchesDataUri(s) ==
    /\ s.scheme = "data:image/"
    /\ s.subtype # <<>>
    /\ AllIn(s.subtype, WordChars)
    /\ s.marker = ";base64,"
    /\ NoneIn(s.payload, LineTerminators)

Box(ymin, xmin, ymax, xmax) ==
    [ymin |-> ymin, xmin |-> xmin, ymax |-> ymax, xmax |-> xmax]

\* boxes the detector answers with: a well-formed one, an inverted one,
\* one of zero width
LabelBoxes ==
    { Box(100, 200, 500, 700), Box(500, 700, 100, 200), Box(0, 750, 1000, 750) }

RECURSIVE SeqsUpTo(_, _)
SeqsUpTo(S, n) ==
    IF n = 0 THEN { <<>> }
    ELSE LET shorter == SeqsUpTo(S, n - 1)
         IN  shorter \cup { Append(q, x) : q \in shorter, x \in S }

NoResponse == [content |-> "none"]

\* what response.choices[0]?.message?.content can be
LLMResponses ==
    { [content |-> "missing"], [content |-> "parts"],
      [content |-> "text", json |-> "malformed"],
      [content |-> "text", json |-> "object"] }
    \cup { [content |-> "text", json |-> "array", items |-> q] :
             q \in SeqsUpTo(LabelBoxes, MaxBoxes) }

\* the try block of detectWineLabels
ParseLabels(r) ==
    IF r.content # "text" THEN <<>>
    ELSE IF r.json = "malformed" THEN <<>>
    ELSE IF r.json = "array" THEN r.items
    ELSE <<>>

\* width and height of sharp's metadata; 0 stands for undefined
MetadataSizes == {0, 36, 1000}

\* getImageDimensions: metadata.width || 1000, metadata.height || 1000
DimensionsOf(metadata) ==
    [width  |-> IF metadata.width = 0 THEN 1000 ELSE metadata.width,
     height |-> IF metadata.height = 0 THEN 1000 ELSE metadata.height]

BboxTuple(b) == <<b.ymin, b.xmin, b.ymax, b.xmax>>

StorageKey(cropId) == <<"wine-crops/", cropId, ".png">>

\* errors invokeLLM rejects with
LLMErrors == {"LLM request timed out", "LLM returned 429"}

Event(op, i) == [op |-> op, i |-> i, err |-> "none"]
Rejection(op, e) == [op |-> op, i |-> 0, err |-> e]

--------------------------------------------------------------------------
(* The Home page: its inputs and the answers of the processImage mutation *)

\* state === null
Null == [isNull |-> TRUE]

\* files the user can drop or pick: three images and one file that is none
Files ==
    { [type |-> "image/png",  data |-> "data:image/png;base64,A"],
      [type |-> "image/jpeg", data |-> "data:image/jpeg;base64,B"],
      [type |-> "image/png",  data |-> "data:image/png;base64,C"],
      [type |-> "text/plain", data |-> "data:text/plain;base64,D"] }

\* file.type.startsWith("image/")
IsImageFile(f) == f.type \in {"image/png", "image/jpeg"}

\* the boxes the server finds in an image
LabelsIn(imageData) ==
    IF imageData = "data:image/png;base64,A" THEN <<Box(100, 200, 500, 700)>>
    ELSE IF imageData = "data:image/jpeg;base64,B"
         THEN <<Box(0, 0, 500, 500), Box(500, 500, 1000, 1000)>>
    ELSE <<>>

\* what mutateAsync({ imageData }) resolves with for the n-th upload: the
\* ProcessingResult of processWineImage, its crop ids fresh for that call
MutationResult(n, imageData) ==
    LET labels == LabelsIn(imageData)
    IN  [crops  |-> [k \in 1..Len(labels) |->
                       [id   |-> <<n, k>>,
                        url  |-> <<"https://storage/", StorageKey(<<n, k>>)>>,
                        bbox |-> BboxTuple(labels[k])]],
         bboxes |-> [k \in 1..Len(labels) |-> BboxTuple(labels[k])]]

HomeIdle ==
    /\ state = Null
    /\ homeImageDimensions = "null"
    /\ uploads = <<>>
    /\ toast = "none"

--------------------------------------------------------------------------
(* Initial states *)

PipeIdle ==
    /\ pc = "idle"
    /\ imageBase64 = [scheme |-> "", subtype |-> <<>>, marker |-> "", payload |-> <<>>]
    /\ response = NoResponse
    /\ detectedLabels = <<>>
    /\ imageDimensions = [width |-> 0, height |-> 0]
    /\ idx = 0
    /\ croppedRect = NoRect
    /\ crops = <<>>
    /\ bboxes = <<>>
    /\ nextId = 1
    /\ stored = <<>>
    /\ failed = {}
    /\ error = "none"
    /\ trace = <<>>

CropIdle ==
    /\ cbox = Box(0, 0, 0, 0)
    /\ cdims = [width |-> 1, height |-> 1]
    /\ cphase = "idle"
    /\ crect = NoRect

CropInit ==
    /\ cbox \in { Box(y1, x1, y2, x2) : y1 \in Coords, x1 \in Coords,
                                        y2 \in Coords, x2 \in Coords }
    /\ cdims \in { [width |-> w, height |-> h] : w \in Dims, h \in Dims }
    /\ cphase = "args"
    /\ crect = NoRect
    /\ PipeIdle
    /\ HomeIdle

--------------------------------------------------------------------------
(* cropImageSharp on its own *)

\* lines 145-165: compute the rectangle and hand it to extract
CropCompute ==
    /\ cphase = "args"
    /\ crect' = CropRect(cbox, cdims)
    /\ cphase' = "extract"
    /\ UNCHANGED <<cbox, cdims>>
    /\ UNCHANGED <<pipeVars, homeVars>>

\* the extract-and-encode promise resolves
CropExtractResolves ==
    /\ cphase = "extract"
    /\ ExtractAccepts(crect)
    /\ cphase' = "cropped"
    /\ UNCHANGED <<cbox, cdims, crect>>
    /\ UNCHANGED <<pipeVars, homeVars>>

\* the extract-and-encode promise rejects (bad region, corrupt source)
CropExtractRejects ==
    /\ cphase = "extract"
    /\ cphase' = "rejected"
    /\ UNCHANGED <<cbox, cdims, crect>>
    /\ UNCHANGED <<pipeVars, homeVars>>

CropNext == CropCompute \/ CropExtractResolves \/ CropExtractRejects

SpecCrop == CropInit /\ [][CropNext]_vars

--------------------------------------------------------------------------
(* processWineImage: one action per stretch of code between two awaits *)

Init ==
    /\ pc = "start"
    /\ imageBase64 \in DataUris
    /\ response = NoResponse
    /\ detectedLabels = <<>>
    /\ imageDimensions = [width |-> 0, height |-> 0]
    /\ idx = 0
    /\ croppedRect = NoRect
    /\ crops = <<>>
    /\ bboxes = <<>>
    /\ nextId = 1
    /\ stored = <<>>
    /\ failed = {}
    /\ error = "none"
    /\ trace = <<>>
    /\ CropIdle
    /\ HomeIdle

\* DecodeAndInvoke with the detector called before the string is checked
InvokeWithoutDecode ==
    /\ pc = "start"
    /\ pc' = "awaitLLM"
    /\ trace' = trace \o <<Event("invokeLLM", 0)>>
    /\ UNCHANGED <<imageBase64, response, detectedLabels, imageDimensions, idx,
                   croppedRect, crops, bboxes, nextId, stored, failed, error>>
    /\ UNCHANGED <<cropVars, homeVars>>

\* line 174 with a string base64ToBuffer accepts, then line 175 up to the
\* await in detectWineLabels: invokeLLM is called
DecodeAndInvoke ==
    /\ pc = "start"
    /\ MatchesDataUri(imageBase64)
    /\ pc' = "awaitLLM"
    /\ trace' = trace \o <<Event("decode", 0), Event("invokeLLM", 0)>>
    /\ UNCHANGED <<imageBase64, response, detectedLabels, imageDimensions, idx,
                   croppedRect, crops, bboxes, nextId, stored, failed, error>>
    /\ UNCHANGED <<cropVars, homeVars>>

\* line 174 with a string base64ToBuffer throws on; the outer catch logs and
\* rethrows
DecodeThrows ==
    /\ pc = "start"
    /\ ~MatchesDataUri(imageBase64)
    /\ pc' = "thrown"
    /\ error' = "Invalid base64 image data"
    /\ UNCHANGED <<imageBase64, response, detectedLabels, imageDimensions, idx,
                   croppedRect, crops, bboxes, nextId, stored, failed, trace>>
    /\ UNCHANGED <<cropVars, homeVars>>

\* the box at position i goes to cropImageSharp, which computes the
\* rectangle and awaits sharp's extract (lines 186-192, 145-167)
StartCrop(i, settled) ==
    /\ idx' = i
    /\ croppedRect' = CropRect(detectedLabels[i], imageDimensions')
    /\ trace' = trace \o settled \o <<Event("extract", i)>>
    /\ pc' = "awaitCrop"

\* end of one iteration: the next box, or return { crops, bboxes } (line 213)
NextBoxOrReturn(settled) ==
    IF idx < Len(detectedLabels)
    THEN StartCrop(idx + 1, settled)
    ELSE /\ pc' = "returned"
         /\ trace' = trace \o settled
         /\ UNCHANGED <<idx, croppedRect>>

\* LLMRejects with the rejection caught and turned into "no boxes"
LLMRejectsSwallowed ==
    /\ pc = "awaitLLM"
    /\ \E e \in LLMErrors :
         trace' = Append(trace, Rejection("llmRejected", e))
    /\ pc' = "returned"
    /\ UNCHANGED <<imageBase64, response, detectedLabels, imageDimensions, idx,
                   croppedRect, crops, bboxes, nextId, stored, failed, error>>
    /\ UNCHANGED <<cropVars, homeVars>>

\* invokeLLM rejects: detectWineLabels has no handler around the call, the
\* outer catch of processWineImage logs and rethrows (lines 214-217)
LLMRejects ==
    /\ pc = "awaitLLM"
    /\ \E e \in LLMErrors :
         /\ error' = e
         /\ trace' = Append(trace, Rejection("llmRejected", e))
    /\ pc' = "thrown"
    /\ UNCHANGED <<imageBase64, response, detectedLabels, imageDimensions, idx,
                   croppedRect, crops, bboxes, nextId, stored, failed>>
    /\ UNCHANGED <<cropVars, homeVars>>

\* LLMResolvesEmpty without the early return of lines 177-179
LLMResolvesEmptyNoEarlyReturn ==
    /\ pc = "awaitLLM"
    /\ \E r \in LLMResponses :
         /\ Len(ParseLabels(r)) = 0
         /\ response' = r
         /\ detectedLabels' = ParseLabels(r)
    /\ pc' = "awaitMetadata"
    /\ trace' = trace \o <<Event("llmResolved", 0), Event("metadata", 0)>>
    /\ UNCHANGED <<imageBase64, imageDimensions, idx, croppedRect,
                   crops, bboxes, nextId, stored, failed, error>>
    /\ UNCHANGED <<cropVars, homeVars>>

\* invokeLLM resolves with something that yields no box: lines 127-137, then
\* the early return of lines 177-179
LLMResolvesEmpty ==
    /\ pc = "awaitLLM"
    /\ \E r \in LLMResponses :
         /\ Len(ParseLabels(r)) = 0
         /\ response' = r
         /\ detectedLabels' = ParseLabels(r)
    /\ pc' = "returned"
    /\ trace' = Append(trace, Event("llmResolved", 0))
    /\ UNCHANGED <<imageBase64, imageDimensions, idx, croppedRect,
                   crops, bboxes, nextId, stored, failed, error>>
    /\ UNCHANGED <<cropVars, homeVars>>

\* invokeLLM resolves with boxes: lines 127-133, 177, then line 181 up to the
\* await of sharp's metadata
LLMResolvesBoxes ==
    /\ pc = "awaitLLM"
    /\ \E r \in LLMResponses :
         /\ Len(ParseLabels(r)) # 0
         /\ response' = r
         /\ detectedLabels' = ParseLabels(r)
    /\ pc' = "awaitMetadata"
    /\ trace' = trace \o <<Event("llmResolved", 0), Event("metadata", 0)>>
    /\ UNCHANGED <<imageBase64, imageDimensions, idx, croppedRect,
                   crops, bboxes, nextId, stored, failed, error>>
    /\ UNCHANGED <<cropVars, homeVars>>

\* sharp's metadata rejects (the bytes are no image): outer catch, rethrow
MetadataRejects ==
    /\ pc = "awaitMetadata"
    /\ pc' = "thrown"
    /\ error' = "metadata failed"
    /\ UNCHANGED <<imageBase64, response, detectedLabels, imageDimensions, idx,
                   croppedRect, crops, bboxes, nextId, stored, failed, trace>>
    /\ UNCHANGED <<cropVars, homeVars>>

\* sharp's metadata resolves: lines 70-73, 183-184, and the first iteration
\* of the loop up to the await of the extract
MetadataResolves ==
    /\ pc = "awaitMetadata"
    /\ \E w \in MetadataSizes, h \in MetadataSizes :
         imageDimensions' = DimensionsOf([width |-> w, height |-> h])
    /\ StartCrop(1, <<Event("dimensions", 0)>>)
    /\ UNCHANGED <<imageBase64, response, detectedLabels, crops, bboxes, nextId,
                   stored, failed, error>>
    /\ UNCHANGED <<cropVars, homeVars>>

\* the extract resolves: nanoid() and the call of storagePut (lines 194-199)
CropResolves ==
    /\ pc = "awaitCrop"
    /\ ExtractAccepts(croppedRect)
    /\ nextId' = nextId + 1
    /\ stored' = Append(stored, StorageKey(nextId))
    /\ trace' = trace \o <<Event("extracted", idx), Event("storagePut", idx)>>
    /\ pc' = "awaitStore"
    /\ UNCHANGED <<imageBase64, response, detectedLabels, imageDimensions, idx,
                   croppedRect, crops, bboxes, failed, error>>
    /\ UNCHANGED <<cropVars, homeVars>>

\* CropRejects with storagePut called although the crop failed
CropRejectsStillStores ==
    /\ pc = "awaitCrop"
    /\ nextId' = nextId + 1
    /\ stored' = Append(stored, StorageKey(nextId))
    /\ trace' = trace \o <<Event("extractFailed", idx), Event("storagePut", idx)>>
    /\ pc' = "awaitStore"
    /\ UNCHANGED <<imageBase64, response, detectedLabels, imageDimensions, idx,
                   croppedRect, crops, bboxes, failed, error>>
    /\ UNCHANGED <<cropVars, homeVars>>

\* the extract rejects: the catch of lines 208-210, then the next iteration
CropRejects ==
    /\ pc = "awaitCrop"
    /\ failed' = failed \cup {idx}
    /\ UNCHANGED imageDimensions
    /\ NextBoxOrReturn(<<Event("extractFailed", idx)>>)
    /\ UNCHANGED <<imageBase64, response, detectedLabels, crops, bboxes, nextId,
                   stored, error>>
    /\ UNCHANGED <<cropVars, homeVars>>

\* const cropId = nanoid() of the iteration whose storagePut is awaited
CurrentCropId == nextId - 1

\* CropResultOf with the coordinates written in x-first order
CropResultOfXFirst(cropId, b) ==
    [id   |-> cropId,
     url  |-> <<"https://storage/", StorageKey(cropId)>>,
     bbox |-> <<b.xmin, b.ymin, b.xmax, b.ymax>>]

\* the CropResult pushed for box b (lines 201-205)
CropResultOf(cropId, b) ==
    [id   |-> cropId,
     url  |-> <<"https://storage/", StorageKey(cropId)>>,
     bbox |-> <<b.ymin, b.xmin, b.ymax, b.xmax>>]

\* storagePut resolves: the two pushes of lines 201-207, then the next
\* iteration
StoreResolves ==
    /\ pc = "awaitStore"
    /\ crops' = Append(crops, CropResultOf(CurrentCropId, detectedLabels[idx]))
    /\ bboxes' = Append(bboxes, BboxTuple(detectedLabels[idx]))
    /\ UNCHANGED imageDimensions
    /\ NextBoxOrReturn(<<Event("stored", idx)>>)
    /\ UNCHANGED <<imageBase64, response, detectedLabels, nextId, stored, failed,
                   error>>
    /\ UNCHANGED <<cropVars, homeVars>>

\* StoreRejects without the per-box catch: the rejection reaches the outer
\* catch and is rethrown
StoreRejectsRethrows ==
    /\ pc = "awaitStore"
    /\ failed' = failed \cup {idx}
    /\ pc' = "thrown"
    /\ error' = "storagePut failed"
    /\ trace' = Append(trace, Event("storeFailed", idx))
    /\ UNCHANGED <<imageBase64, response, detectedLabels, imageDimensions, idx,
                   croppedRect, crops, bboxes, nextId, stored>>
    /\ UNCHANGED <<cropVars, homeVars>>

\* storagePut rejects: the catch of lines 208-210, then the next iteration
StoreRejects ==
    /\ pc = "awaitStore"
    /\ failed' = failed \cup {idx}
    /\ UNCHANGED imageDimensions
    /\ NextBoxOrReturn(<<Event("storeFailed", idx)>>)
    /\ UNCHANGED <<imageBase64, response, detectedLabels, crops, bboxes, nextId,
                   stored, error>>
    /\ UNCHANGED <<cropVars, homeVars>>

Next ==
    \/ DecodeAndInvoke
    \/ DecodeThrows
    \/ LLMRejects
    \/ LLMResolvesEmpty
    \/ LLMResolvesBoxes
    \/ MetadataRejects
    \/ MetadataResolves
    \/ CropResolves
    \/ CropRejects
    \/ StoreResolves
    \/ StoreRejects

Spec == Init /\ [][Next]_vars

--------------------------------------------------------------------------
(* The Home page: one action per event handler or callback *)

HomeInit ==
    /\ HomeIdle
    /\ CropIdle
    /\ PipeIdle

\* the upload section, with the drop zone and the file input, is rendered
\* only while state is null (line 127)
UploadSectionShown == state = Null

\* handleFileSelect with a file that is no image (lines 61-64)
SelectOtherFile ==
    /\ UploadSectionShown
    /\ Len(uploads) < MaxUploads
    /\ \E f \in Files :
         /\ ~IsImageFile(f)
         /\ uploads' = Append(uploads, [file |-> f, reader |-> "unused",
                                        mutation |-> "none"])
    /\ toast' = "Please select a valid image file"
    /\ UNCHANGED <<state, homeImageDimensions>>
    /\ UNCHANGED <<cropVars, pipeVars>>

\* handleFileSelect with an image: reader.readAsDataURL(file) (lines 66-91)
SelectImageFile ==
    /\ UploadSectionShown
    /\ Len(uploads) < MaxUploads
    /\ \E f \in Files :
         /\ IsImageFile(f)
         /\ uploads' = Append(uploads, [file |-> f, reader |-> "reading",
                                        mutation |-> "none"])
    /\ UNCHANGED <<state, homeImageDimensions, toast>>
    /\ UNCHANGED <<cropVars, pipeVars>>

\* reader.onload up to the await of mutateAsync (lines 67-78)
ReaderLoads ==
    /\ \E n \in 1..Len(uploads) :
         /\ uploads[n].reader = "reading"
         /\ state' = [originalUrl |-> uploads[n].file.data, crops |-> <<>>,
                      bboxes |-> <<>>, isProcessing |-> TRUE]
         /\ uploads' = [uploads EXCEPT ![n].reader = "loaded",
                                       ![n].mutation = "pending"]
    /\ homeImageDimensions' = "null"
    /\ UNCHANGED toast
    /\ UNCHANGED <<cropVars, pipeVars>>

\* mutateAsync resolves: the functional setState of lines 79-84 and the toast
MutationResolves ==
    /\ \E n \in 1..Len(uploads) :
         /\ uploads[n].mutation = "pending"
         /\ LET result == MutationResult(n, uploads[n].file.data)
            IN  state' = IF state = Null
                         THEN [originalUrl |-> "undefined", crops |-> result.crops,
                               bboxes |-> result.bboxes, isProcessing |-> FALSE]
                         ELSE [state EXCEPT !.crops = result.crops,
                                            !.bboxes = result.bboxes,
                                            !.isProcessing = FALSE]
         /\ uploads' = [uploads EXCEPT ![n].mutation = "resolved"]
    /\ toast' = "Detected wine labels"
    /\ UNCHANGED homeImageDimensions
    /\ UNCHANGED <<cropVars, pipeVars>>

\* mutateAsync rejects: the catch of lines 86-89
MutationRejects ==
    /\ \E n \in 1..Len(uploads) :
         /\ uploads[n].mutation = "pending"
         /\ uploads' = [uploads EXCEPT ![n].mutation = "rejected"]
    /\ state' = Null
    /\ toast' = "Failed to process image"
    /\ UNCHANGED homeImageDimensions
    /\ UNCHANGED <<cropVars, pipeVars>>

\* the Upload Another Image button, rendered whenever state is not null,
\* also while isProcessing (lines 209-215)
ClickUploadAnother ==
    /\ state # Null
    /\ state' = Null
    /\ UNCHANGED <<homeImageDimensions, uploads, toast>>
    /\ UNCHANGED <<cropVars, pipeVars>>

\* the effect of lines 28-44: the shown image is complete or fires load
UpdateDimensions ==
    /\ state # Null
    /\ homeImageDimensions # state.originalUrl
    /\ homeImageDimensions' = state.originalUrl
    /\ UNCHANGED <<state, uploads, toast>>
    /\ UNCHANGED <<cropVars, pipeVars>>

HomeNext ==
    \/ SelectOtherFile
    \/ SelectImageFile
    \/ ReaderLoads
    \/ MutationResolves
    \/ MutationRejects
    \/ ClickUploadAnother
    \/ UpdateDimensions

SpecHome == HomeInit /\ [][HomeNext]_vars

--------------------------------------------------------------------------
(* Properties of the crop rectangle, under SpecCrop *)

RectComputed == cphase \in {"extract", "cropped", "rejected"}

\* C1: for every box with coordinates in [0,1000] and every image size with
\* width >= 1 and height >= 1, the rectangle cropImageSharp passes to extract
\* lies inside the image: left >= 0, top >= 0, left + width <= image width,
\* top + height <= image height.
C1_RectInsideImage ==
    RectComputed =>
        /\ crect.left >= 0
        /\ crect.top >= 0
        /\ crect.left + crect.width <= cdims.width
        /\ crect.top + crect.height <= cdims.height

\* C1 witness: both clamps acted on the x axis: the padded origin was
\* negative and the padded extent exceeded the space right of the origin.
C1_Witness ==
    /\ cphase = "extract"
    /\ pixelX(cbox, cdims) - PadOf(pixelW(cbox, cdims)) < 0
    /\ crect.left = 0
    /\ pixelW(cbox, cdims) + PadOf(pixelW(cbox, cdims)) * 2 > cdims.width
    /\ crect.width = cdims.width
    /\ cdims.width = 1000

\* C2: for every box with coordinates in [0,1000], inverted and degenerate
\* ones included, and every image size, the rectangle passed to extract has
\* width >= 1 and height >= 1.
C2_PositiveExtent ==
    RectComputed => crect.width >= 1 /\ crect.height >= 1

\* the mapping in exact arithmetic: floor(v*dim/1000), ceil(v*dim/1000)
RefFloor(v, dim) == (v * dim) \div 1000
RefCeil(v, dim) == 0 - ((0 - v * dim) \div 1000)
RefOrigin(lo, hi, dim) ==
    Max(0, RefFloor(lo, dim) - Max(1, RefCeil(hi - lo, dim) \div 20))
RefExtent(lo, hi, dim) ==
    Min(dim - RefOrigin(lo, hi, dim),
        RefCeil(hi - lo, dim) + 2 * Max(1, RefCeil(hi - lo, dim) \div 20))
RefRect(b, d) ==
    [left   |-> RefOrigin(b.xmin, b.xmax, d.width),
     top    |-> RefOrigin(b.ymin, b.ymax, d.height),
     width  |-> RefExtent(b.xmin, b.xmax, d.width),
     height |-> RefExtent(b.ymin, b.ymax, d.height)]

\* C3: for every box and image size of the bounded sets, the rectangle
\* cropImageSharp extracts equals the reference mapping x = floor(xmin*W/1000),
\* w = ceil((xmax-xmin)*W/1000), padW = max(1, floor(w*0.05)),
\* x'' = max(0, x - padW), w'' = min(W - x'', w + 2*padW), and the same for
\* y and h with H.
C3_EqualsReference ==
    RectComputed => crect = RefRect(cbox, cdims)

WellFormed(b) ==
    /\ 0 <= b.xmin /\ b.xmin < b.xmax /\ b.xmax <= 1000
    /\ 0 <= b.ymin /\ b.ymin < b.ymax /\ b.ymax <= 1000

\* C12: for every well-formed box (0 <= xmin < xmax <= 1000 and
\* 0 <= ymin < ymax <= 1000) and every image size, the rectangle passed to
\* extract contains the whole unpadded pixel rectangle: cropX <= pixelX,
\* cropY <= pixelY, cropX + cropW >= pixelX + pixelW and
\* cropY + cropH >= pixelY + pixelH.
C12_ContainsBaseRect ==
    (RectComputed /\ WellFormed(cbox)) =>
        /\ crect.left <= pixelX(cbox, cdims)
        /\ crect.top <= pixelY(cbox, cdims)
        /\ crect.left + crect.width >= pixelX(cbox, cdims) + pixelW(cbox, cdims)
        /\ crect.top + crect.height >= pixelY(cbox, cdims) + pixelH(cbox, cdims)

--------------------------------------------------------------------------
(* Properties of processWineImage, under Spec *)

Ops(op) == { k \in 1..Len(trace) : trace[k].op = op }
OpsOf(op, i) == { k \in 1..Len(trace) : trace[k].op = op /\ trace[k].i = i }

N == Len(detectedLabels)

RECURSIVE SurvivorsFrom(_)
\* the boxes from position i on whose crop and store steps did not fail
SurvivorsFrom(i) ==
    IF i > N THEN <<>>
    ELSE IF i \in failed THEN SurvivorsFrom(i + 1)
    ELSE <<BboxTuple(detectedLabels[i])>> \o SurvivorsFrom(i + 1)

BboxesOfCrops == [k \in 1..Len(crops) |-> crops[k].bbox]

\* C4 as stated: when the detector returned N >= 1 boxes and k of them
\* failed in the crop or store step, the run returns normally with exactly
\* N-k crops and N-k bboxes, in detector order.
C4_ReturnsSurvivors ==
    (N >= 1 /\ pc \in {"returned", "thrown"}) =>
        /\ pc = "returned"
        /\ Len(crops) = N - Cardinality(failed)
        /\ Len(bboxes) = N - Cardinality(failed)
        /\ bboxes = SurvivorsFrom(1)
        /\ BboxesOfCrops = SurvivorsFrom(1)

\* C4 amended: when the detector returned N >= 1 boxes and the image
\* dimensions were read, the run never throws, whatever crop or store steps
\* fail, and it returns exactly N-k crops and N-k bboxes, k the number of
\* boxes whose crop or store step failed, in detector order.
C4_ReturnsSurvivorsOnceDimensionsRead ==
    (N >= 1 /\ Ops("dimensions") # {}) =>
        /\ pc # "thrown"
        /\ error = "none"
        /\ pc = "returned" =>
             /\ Len(crops) = N - Cardinality(failed)
             /\ Len(bboxes) = N - Cardinality(failed)
             /\ bboxes = SurvivorsFrom(1)
             /\ BboxesOfCrops = SurvivorsFrom(1)

\* C4 witness: three boxes, the middle one failed in its store step, the
\* other two were returned.
C4_Witness ==
    /\ pc = "returned"
    /\ N = 3
    /\ failed = {2}
    /\ OpsOf("storeFailed", 2) # {}
    /\ Len(crops) = 2

RECURSIVE StoredPositions(_)
\* positions, in detectedLabels, of the boxes whose storagePut resolved,
\* read from the history from entry k on
StoredPositions(k) ==
    IF k > Len(trace) THEN <<>>
    ELSE IF trace[k].op = "stored" THEN <<trace[k].i>> \o StoredPositions(k + 1)
    ELSE StoredPositions(k + 1)

\* C5: at every await of the loop and in the result, crops and bboxes have
\* the same length, and for every i, crops[i].bbox = bboxes[i] = the
\* (ymin, xmin, ymax, xmax) of the detector box that produced crop i.
C5_BboxRoundTrip ==
    LET producer == StoredPositions(1)
    IN  /\ Len(crops) = Len(bboxes)
        /\ Len(crops) = Len(producer)
        /\ \A k \in 1..Len(crops) :
             LET b == detectedLabels[producer[k]]
             IN  /\ crops[k].bbox = bboxes[k]
                 /\ bboxes[k] = <<b.ymin, b.xmin, b.ymax, b.xmax>>

\* C5 witness: inside the loop, the first box failed, the second produced a
\* crop, the third is being cropped.
C5_Witness ==
    /\ pc = "awaitCrop"
    /\ idx = 3
    /\ 1 \in failed
    /\ Len(crops) = 1
    /\ crops[1].bbox = <<100, 200, 500, 700>>

\* C6: a string that does not match data:image/<type>;base64,<payload> makes
\* the run fail with an error, and in that run the detector is never
\* invoked, the dimensions are never read and storagePut is never called.
C6_MalformedFailsFirst ==
    ~MatchesDataUri(imageBase64) =>
        /\ pc \in {"start", "thrown"}
        /\ pc = "thrown" => error = "Invalid base64 image data"
        /\ Ops("invokeLLM") = {}
        /\ Ops("metadata") = {}
        /\ Ops("storagePut") = {}
        /\ stored = <<>>

\* C6 witness: the run threw on a string whose subtype is not a word.
C6_Witness ==
    /\ pc = "thrown"
    /\ error = "Invalid base64 image data"
    /\ imageBase64.scheme = "data:image/"
    /\ imageBase64.marker = ";base64,"
    /\ trace = <<>>

\* an answer of the model that carries no box: missing or non-string
\* content, text that is no JSON, JSON that is no array, the empty array
CarriesNoBox(r) ==
    \/ r.content \in {"missing", "parts"}
    \/ r.content = "text" /\ r.json \in {"malformed", "object"}
    \/ r.content = "text" /\ r.json = "array" /\ r.items = <<>>

\* C7: for a well-formed data URI, an answer that carries no box makes the
\* run return {crops: [], bboxes: []} without throwing, without reading the
\* dimensions and without calling storagePut.
C7_NoBoxReturnsEmpty ==
    CarriesNoBox(response) =>
        /\ pc = "returned"
        /\ error = "none"
        /\ crops = <<>>
        /\ bboxes = <<>>
        /\ Ops("metadata") = {}
        /\ Ops("storagePut") = {}
        /\ stored = <<>>

\* C7 witness: the run returned after an answer that was no JSON.
C7_Witness ==
    /\ pc = "returned"
    /\ response.content = "text"
    /\ response.json = "malformed"
    /\ MatchesDataUri(imageBase64)

IsCropKey(key) == key[1] = "wine-crops/"

\* C8: every run that returns has stored the original image, in addition
\* to one object per returned crop.
C8_OriginalStored ==
    pc = "returned" =>
        /\ \E k \in 1..Len(stored) : ~IsCropKey(stored[k])
        /\ Cardinality({ k \in 1..Len(stored) : IsCropKey(stored[k]) }) >= Len(crops)

\* C9: when invokeLLM rejects, the run fails with that same error, the
\* detector was invoked exactly once, no result is returned, the dimensions
\* are not read and storagePut is never called.
C9_TransportFailureIsFatal ==
    \A k \in Ops("llmRejected") :
        /\ pc = "thrown"
        /\ error = trace[k].err
        /\ Cardinality(Ops("invokeLLM")) = 1
        /\ Ops("metadata") = {}
        /\ Ops("storagePut") = {}
        /\ stored = <<>>

\* C9 witness: the run threw the detector's timeout.
C9_Witness ==
    /\ pc = "thrown"
    /\ error = "LLM request timed out"
    /\ Ops("llmRejected") # {}

Settled(i) == OpsOf("extractFailed", i) \cup OpsOf("stored", i) \cup OpsOf("storeFailed", i)

\* C10: the detector is invoked only after the string decoded; the
\* dimensions are read at most once and only after the detector returned at
\* least one box; the boxes are cropped one at a time in detector order, box
\* i+1 only after the crop and store of box i finished or failed; storagePut
\* is called at most once per box and only after that box's crop succeeded.
C10_StepOrder ==
    /\ \A k \in Ops("invokeLLM") :
         MatchesDataUri(imageBase64) /\ \E j \in Ops("decode") : j < k
    /\ Cardinality(Ops("metadata")) <= 1
    /\ \A k \in Ops("metadata") :
         N >= 1 /\ \E j \in Ops("llmResolved") : j < k
    /\ \A k \in Ops("extract") :
         /\ Cardinality(OpsOf("extract", trace[k].i)) = 1
         /\ \E j \in Ops("dimensions") : j < k
         /\ trace[k].i \in 1..N
         /\ \A i \in 1..(trace[k].i - 1) :
              /\ \E j \in OpsOf("extract", i) : j < k
              /\ \E j \in Settled(i) : j < k
    /\ \A k \in Ops("storagePut") :
         /\ Cardinality(OpsOf("storagePut", trace[k].i)) = 1
         /\ \E j \in OpsOf("extracted", trace[k].i) : j < k
         /\ OpsOf("extractFailed", trace[k].i) = {}
    /\ Len(stored) = Cardinality(Ops("storagePut"))

\* C10 witness: a finished run over three boxes: the first stored, the
\* second failed to crop, the third failed to store.
C10_Witness ==
    /\ pc = "returned"
    /\ N = 3
    /\ OpsOf("stored", 1) # {}
    /\ OpsOf("extractFailed", 2) # {}
    /\ OpsOf("storeFailed", 3) # {}

--------------------------------------------------------------------------
(* Properties of the Home page, under SpecHome *)

\* C11: whenever state is not null and isProcessing is false, the crops and
\* bboxes shown are the result of processing the image held in originalUrl:
\* some resolved upload read that image and resolved with exactly these
\* crops and bboxes.  This is to hold in every interleaving, also when the
\* user resets the page and selects a second file while the first mutation
\* is pending.
C11_ShownResultIsOfShownImage ==
    (state # Null /\ ~state.isProcessing) =>
        \E n \in 1..Len(uploads) :
            /\ uploads[n].mutation = "resolved"
            /\ uploads[n].file.data = state.originalUrl
            /\ state.crops = MutationResult(n, uploads[n].file.data).crops
            /\ state.bboxes = MutationResult(n, uploads[n].file.data).bboxes

==========================================================================
